---- MODULE Spec2Model ----
(***************************************************************************)
(* kagglefetcher: the fetch pipeline of KaggleFetcher (download, move,     *)
(* cleanup, fetch) over a model of the filesystem.                         *)
(*                                                                         *)
(* A path is a record [abs, parts]: parts is the sequence of its           *)
(* components, abs says whether it starts at the root.  The filesystem fs  *)
(* is a function from the component sequences of the entries that exist    *)
(* to [kind, tag]; kind is "dir" or "file", and tag names the contents     *)
(* (the n-th retrieval produces a directory with tag n, everything else    *)
(* has tag 0).  The root <<>> always exists.                               *)
(***************************************************************************)
EXTENDS Integers, Sequences, FiniteSets, TLC

\* The number of retrievals a behaviour may perform (content tags 1..MaxDownloads).
MaxDownloads == 2

\* The number of handlers a logger may come to hold.
MaxHandlers == 3

\* The number of components of a path given to clean_path or ensure_dir.
MaxParts == 2

None == [abs |-> FALSE, parts |-> <<"<None>">>]

P(parts) == [abs |-> TRUE, parts |-> parts]

R(parts) == [abs |-> FALSE, parts |-> parts]

\* Path.cwd() and the user's home directory.
Cwd == <<"w">>

Home == <<"h">>

---------------------------------------------------------------------------
(* Path strings                                                            *)

RECURSIVE Join(_)
Join(s) == IF s = <<>> THEN "" ELSE Head(s) \o Join(Tail(s))

\* source.split("/")[-1]: the characters after the last "/".
RECURSIVE LastSegment(_)
LastSegment(s) ==
  IF s = <<>> THEN <<>>
  ELSE IF s[Len(s)] = "/" THEN <<>>
  ELSE Append(LastSegment(SubSeq(s, 1, Len(s) - 1)), s[Len(s)])

\* os.path.normpath on the components of an absolute path: "." is dropped,
\* ".." removes the component before it (and is dropped at the root).
RECURSIVE NormParts(_, _)
NormParts(done, rest) ==
  IF rest = <<>> THEN done
  ELSE IF Head(rest) = "." \/ Head(rest) = "" THEN NormParts(done, Tail(rest))
  ELSE IF Head(rest) = ".."
    THEN NormParts(IF done = <<>> THEN <<>> ELSE SubSeq(done, 1, Len(done) - 1),
                   Tail(rest))
  ELSE NormParts(Append(done, Head(rest)), Tail(rest))

\* os.path.abspath: a relative path is joined to the working directory.
AbsPath(p) ==
  [abs |-> TRUE, parts |-> NormParts(<<>>, IF p.abs THEN p.parts ELSE Cwd \o p.parts)]

\* os.path.expanduser: only a path whose first character is "~".
ExpandUser(p) ==
  IF ~p.abs /\ p.parts /= <<>> /\ p.parts[1] = "~"
  THEN [abs |-> TRUE, parts |-> Home \o Tail(p.parts)]
  ELSE p

clean_path(p) == ExpandUser(AbsPath(p))

\* pathlib's p / name for a name without separators.
Div(p, name) ==
  IF name = "" \/ name = "." THEN p ELSE [p EXCEPT !.parts = Append(@, name)]

\* pathlib's p.parent.
Parent(p) ==
  IF p.parts = <<>> THEN p ELSE [p EXCEPT !.parts = SubSeq(@, 1, Len(@) - 1)]

---------------------------------------------------------------------------
(* The filesystem                                                          *)

IsPrefix(a, b) == Len(a) <= Len(b) /\ SubSeq(b, 1, Len(a)) = a

Exists(f, p) == p.parts \in DOMAIN f

IsDir(f, p) == Exists(f, p) /\ f[p.parts].kind = "dir"

IsFile(f, p) == Exists(f, p) /\ f[p.parts].kind = "file"

Prefixes(k) == {SubSeq(k, 1, n) : n \in 0..Len(k)}

Under(f, k) == {q \in DOMAIN f : IsPrefix(k, q)}

Entry(kind, tag) == [kind |-> kind, tag |-> tag]

\* What an operation on the filesystem gives: the error it raised ("" for
\* none) and the filesystem it leaves.
Out(err, f) == [err |-> err, fs |-> f]

\* Path.mkdir(parents=True, exist_ok=True).
Mkdirs(f, p) ==
  IF \E a \in Prefixes(p.parts) : a \in DOMAIN f /\ f[a].kind = "file"
  THEN Out(IF IsFile(f, p) THEN "FileExistsError" ELSE "NotADirectoryError", f)
  ELSE Out("", [q \in DOMAIN f \cup Prefixes(p.parts) |->
                  IF q \in DOMAIN f THEN f[q] ELSE Entry("dir", 0)])

\* Mutant of Rmtree: only the entry itself is removed, what lies under it
\* is left.
Rmtree_shallow(f, p) ==
  IF ~Exists(f, p) THEN Out("FileNotFoundError", f)
  ELSE IF ~IsDir(f, p) THEN Out("NotADirectoryError", f)
  ELSE Out("", [q \in DOMAIN f \ {p.parts} |-> f[q]])

\* shutil.rmtree(p).
Rmtree(f, p) ==
  IF ~Exists(f, p) THEN Out("FileNotFoundError", f)
  ELSE IF ~IsDir(f, p) THEN Out("NotADirectoryError", f)
  ELSE Out("", [q \in DOMAIN f \ Under(f, p.parts) |-> f[q]])

\* The entries under src, renamed to lie under dst.
Relocated(f, src, dst) ==
  [q \in {dst \o SubSeq(k, Len(src) + 1, Len(k)) : k \in Under(f, src)} |->
     f[src \o SubSeq(q, Len(dst) + 1, Len(q))]]

\* Mutant of ShutilMove: the source is copied and left in place.
ShutilMove_copying(f, src, dst) ==
  IF ~Exists(f, src) THEN Out("FileNotFoundError", f)
  ELSE IF Exists(f, dst) \/ IsPrefix(src.parts, dst.parts) THEN Out("Error", f)
  ELSE IF ~IsDir(f, Parent(dst)) THEN Out("NotADirectoryError", f)
  ELSE LET moved == Relocated(f, src.parts, dst.parts)
       IN Out("", [q \in DOMAIN f \cup DOMAIN moved |->
                     IF q \in DOMAIN moved THEN moved[q] ELSE f[q]])

\* shutil.move(src, dst).
ShutilMove(f, src, dst) ==
  LET real_dst == IF IsDir(f, dst) /\ src /= dst
                  THEN Div(dst, src.parts[Len(src.parts)]) ELSE dst
  IN
  IF ~Exists(f, src) THEN Out("FileNotFoundError", f)
  ELSE IF IsDir(f, dst) /\ src = dst THEN Out("", f)
  ELSE IF Exists(f, real_dst) THEN Out("Error", f)
  ELSE IF IsPrefix(src.parts, real_dst.parts) THEN Out("Error", f)
  ELSE IF ~IsDir(f, Parent(real_dst)) THEN Out("NotADirectoryError", f)
  ELSE LET kept == [q \in DOMAIN f \ Under(f, src.parts) |-> f[q]]
           moved == Relocated(f, src.parts, real_dst.parts)
       IN Out("", [q \in DOMAIN kept \cup DOMAIN moved |->
                     IF q \in DOMAIN moved THEN moved[q] ELSE kept[q]])

---------------------------------------------------------------------------
(* utils.py                                                                *)

\* ensure_dir(path): nothing is done when an entry of any kind exists there.
ensure_dir(f, p) == IF Exists(f, p) THEN Out("", f) ELSE Mkdirs(f, p)

\* open(p, "a"), as logging.FileHandler(p) does on construction: the file
\* is created when missing.
OpenAppend(f, p) ==
  IF IsDir(f, p) THEN Out("IsADirectoryError", f)
  ELSE IF IsFile(f, p) THEN Out("", f)
  ELSE IF IsFile(f, Parent(p)) THEN Out("NotADirectoryError", f)
  ELSE IF ~IsDir(f, Parent(p)) THEN Out("FileNotFoundError", f)
  ELSE Out("", (p.parts :> Entry("file", 0)) @@ f)

\* What setting up logging gives: the error raised, the filesystem and the
\* handlers of the logger.
Logged(err, f, h) == [err |-> err, fs |-> f, handlers |-> h]

\* setup_logger(log_dir, "kaggle_fetcher.log", module_name), h being the
\* handlers of the logger of that name: the handlers are made, and added
\* only to a logger that has none.
setup_logger(f, h, log_dir) ==
  LET e == ensure_dir(f, AbsPath(log_dir))
      o == OpenAppend(e.fs, AbsPath(Div(log_dir, "kaggle_fetcher.log")))
  IN IF e.err /= "" THEN Logged(e.err, e.fs, h)
     ELSE IF o.err /= "" THEN Logged(o.err, o.fs, h)
     ELSE Logged("", o.fs, IF h = <<>> THEN <<"file", "stream">> ELSE h)

---------------------------------------------------------------------------
(* KaggleFetcher                                                           *)

\* What a method gives: status is "returned" or the error kind raised, path
\* the path returned (None for none), flag the boolean returned ("-" for
\* none), cause the error that was wrapped, fs the filesystem it leaves.
Result(status, path, flag, cause, f) ==
  [status |-> status, path |-> path, flag |-> flag, cause |-> cause, fs |-> f]

\* KaggleFetcher.__init__(source, dest_base_dir).
Construct(source, dest_base_dir) ==
  LET dataset_name == Join(LastSegment(source))
      base == clean_path(IF dest_base_dir = None
                         THEN Div(Div(P(Cwd), "kaggle"), "input")
                         ELSE dest_base_dir)
  IN [source |-> source, dataset_name |-> dataset_name,
      dest_base_dir |-> base, dest_path |-> Div(base, dataset_name)]

\* kagglefetcher/core.py, KaggleFetcher.__init__(source, dest_base_dir):
\* the base directory is taken as given.
ConstructPlain(source, dest_base_dir) ==
  LET dataset_name == Join(LastSegment(source))
      base == IF dest_base_dir = None
              THEN Div(Div(P(Cwd), "kaggle"), "input")
              ELSE dest_base_dir
  IN [source |-> source, dataset_name |-> dataset_name,
      dest_base_dir |-> base, dest_path |-> Div(base, dataset_name)]

\* kagglefetcher/core.py, KaggleFetcher._setup_logging(log_dir), h being
\* the handlers of the module's logger: a new file handler is added.
setup_logging(f, h, log_dir) ==
  LET d == Mkdirs(f, AbsPath(log_dir))
      o == OpenAppend(d.fs, AbsPath(Div(log_dir, "kaggle_fetcher.log")))
  IN IF d.err /= "" THEN Logged(d.err, d.fs, h)
     ELSE IF o.err /= "" THEN Logged(o.err, o.fs, h)
     ELSE Logged("", o.fs, Append(h, "file"))

\* The retrieval collaborator, khub.dataset_download(source), as the tests
\* stub it: tempfile.mkdtemp() makes a new directory c and returns its name;
\* fail /= "" is the collaborator raising that error.
Retrieve(f, c, tag, fail) ==
  IF fail /= "" THEN [err |-> fail, fs |-> f, path |-> None]
  ELSE IF ~IsDir(f, Parent(c)) THEN [err |-> "FileNotFoundError", fs |-> f, path |-> None]
  ELSE [err |-> "", fs |-> (c.parts :> Entry("dir", tag)) @@ f, path |-> c]

\* Mutant of download: the collaborator's error is raised as it is.
download_unwrapped(f, c, tag, fail) ==
  LET r == Retrieve(f, c, tag, fail)
  IN IF r.err = ""
     THEN Result("returned", clean_path(r.path), "-", "", r.fs)
     ELSE Result(r.err, None, "-", "", r.fs)

\* KaggleFetcher.download(): any exception becomes a DownloadError.
download(f, c, tag, fail) ==
  LET r == Retrieve(f, c, tag, fail)
  IN IF r.err = ""
     THEN Result("returned", clean_path(r.path), "-", "", r.fs)
     ELSE Result("DownloadError", None, "-", r.err, r.fs)

\* Mutant of ShutilMoveFault: a failure to remove the source after the copy
\* is ignored.
ShutilMoveFault_ignoring(f, src, dst, fault) ==
  LET r == ShutilMove(f, src, dst)
  IN IF fault = "move" \/ r.err /= "" THEN Out(IF r.err /= "" THEN r.err ELSE "OSError", f)
     ELSE IF fault = "move_copied"
       THEN Out("", [q \in DOMAIN f \cup DOMAIN r.fs |->
                       IF q \in DOMAIN r.fs THEN r.fs[q] ELSE f[q]])
     ELSE r

\* shutil.move under an injected fault: "move" is the relocation failing
\* with nothing done, "move_copied" a copy-then-delete relocation whose
\* copy was made and whose removal of the source failed.
ShutilMoveFault(f, src, dst, fault) ==
  LET r == ShutilMove(f, src, dst)
  IN IF fault = "move" \/ r.err /= "" THEN Out(IF r.err /= "" THEN r.err ELSE "OSError", f)
     ELSE IF fault = "move_copied"
       THEN Out("OSError", [q \in DOMAIN f \cup DOMAIN r.fs |->
                              IF q \in DOMAIN r.fs THEN r.fs[q] ELSE f[q]])
     ELSE r

\* Mutant of RemoveExisting: an entry at the destination is left there.
RemoveExisting_skipped(f, dest, fault) ==
  IF fault = "exists" THEN Out("PermissionError", f) ELSE Out("", f)

\* move, lines 59-61: an entry at the destination is removed with rmtree.
RemoveExisting(f, dest, fault) ==
  IF fault = "exists" THEN Out("PermissionError", f)
  ELSE IF Exists(f, dest)
    THEN (IF fault = "rmtree" THEN Out("PermissionError", f) ELSE Rmtree(f, dest))
  ELSE Out("", f)

\* Mutant of MoveRaise: the cause is raised as it is.
MoveRaise_unwrapped(out) == Result(out.err, None, "-", "", out.fs)

\* except Exception as e: raise MoveError(...) from e.
MoveRaise(out) == Result("MoveError", None, "-", out.err, out.fs)

\* Mutant of MoveDest: the dest_path argument is ignored.
MoveDest_derived(self, dest_path) == clean_path(self.dest_path)

\* move, line 55: dest = clean_path(dest_path or self.dest_path).
MoveDest(self, dest_path) ==
  clean_path(IF dest_path = None THEN self.dest_path ELSE dest_path)

\* KaggleFetcher.move(cache_path, dest_path).
move(self, f, cache_path, dest_path, fault) ==
  LET dest == MoveDest(self, dest_path)
      a == IF fault = "ensure_dir" THEN Out("PermissionError", f)
           ELSE ensure_dir(f, Parent(dest))
      b == IF a.err /= "" THEN a ELSE RemoveExisting(a.fs, dest, fault)
      c == IF b.err /= "" THEN b ELSE ShutilMoveFault(b.fs, cache_path, dest, fault)
  IN IF c.err = "" THEN Result("returned", dest, "-", "", c.fs) ELSE MoveRaise(c)

\* except Exception as e: raise CleanupError(...) from e.
CleanupRaise(out) == Result("CleanupError", None, "-", out.err, out.fs)

\* Mutant of cleanup: rmtree is called without the existence check.
cleanup_unchecked(f, cache_path, fault) ==
  LET r == IF fault = "none" THEN Rmtree(f, clean_path(cache_path))
           ELSE Out("PermissionError", f)
  IN IF r.err = "" THEN Result("returned", None, "True", "", r.fs)
     ELSE CleanupRaise(r)

\* KaggleFetcher.cleanup(cache_path).
cleanup(f, cache_path, fault) ==
  LET p == clean_path(cache_path)
  IN IF fault = "exists" THEN CleanupRaise(Out("PermissionError", f))
     ELSE IF Exists(f, p)
       THEN LET r == IF fault = "rmtree" THEN Out("PermissionError", f) ELSE Rmtree(f, p)
            IN IF r.err = "" THEN Result("returned", None, "True", "", r.fs)
               ELSE CleanupRaise(r)
     ELSE Result("returned", None, "False", "", f)

\* fetch, line 93: whether the cleanup step runs.
CleanupDue(keep_cache, cache, final) == ~keep_cache /\ cache /= final

\* Mutant of FetchReturn: a CleanupError leaves fetch.
FetchReturn_raising(cl, final, f) ==
  IF cl.status = "CleanupError" THEN Result("CleanupError", None, "-", cl.cause, f)
  ELSE Result("returned", final, "-", "", f)

\* fetch, lines 94-98: a CleanupError is caught and the final path returned.
FetchReturn(cl, final, f) == Result("returned", final, "-", "", f)

\* KaggleFetcher.fetch(keep_cache, dest_path) as a whole: download, move,
\* cleanup.  c is the directory the retrieval makes, tag names its
\* contents, ch.fail, ch.move and ch.cleanup are the errors met on the way.
fetch(self, f, keep_cache, dest_path, tag, ch) ==
  LET d == download(f, ch.c, tag, ch.fail)
      m == move(self, d.fs, d.path, dest_path, ch.move)
      k == cleanup(m.fs, d.path, ch.cleanup)
  IN IF d.status /= "returned" THEN d
     ELSE IF m.status /= "returned" THEN m
     ELSE IF CleanupDue(keep_cache, d.path, m.path)
       THEN FetchReturn([status |-> k.status, cause |-> k.cause], m.path, k.fs)
     ELSE FetchReturn([status |-> "notrun", cause |-> ""], m.path, m.fs)

\* Mutant of fetch_dataset: dest_dir is not passed to the constructor.
fetch_dataset_default_dir(f, source, dest_dir, tag, ch) ==
  fetch([source |-> source, dataset_name |-> Join(LastSegment(source)),
         dest_base_dir |-> P(Cwd \o <<"kaggle", "input">>),
         dest_path |-> Div(P(Cwd \o <<"kaggle", "input">>), Join(LastSegment(source)))],
        f, FALSE, None, tag, ch)

\* fetch_dataset(source, dest_dir): KaggleFetcher(source, dest_dir).fetch().
fetch_dataset(f, source, dest_dir, tag, ch) ==
  fetch(Construct(source, dest_dir), f, FALSE, None, tag, ch)

---------------------------------------------------------------------------
(* The inputs                                                              *)

\* The dataset identifiers: "u/d" and "u/" (its short name is empty).
Sources == {<<"u", "/", "d">>, <<"u", "/">>}

\* The dest_base_dir arguments: an absolute directory, and None for the
\* default <cwd>/kaggle/input.
BaseArgs == {P(<<"t">>), None}

\* The names mkdtemp may give a new directory.
CachePaths == {P(<<"c", "x">>), P(<<"c", "y">>)}

\* The dest_path arguments: None for the derived destination, a relative
\* path of the caller's (it is /t/e), the temporary directory (an ancestor
\* of every cache path), and a cache path.
DestArgs == {None, R(<<"..", "t", "e">>), P(<<"c">>), P(<<"c", "x">>)}

\* The dest_path arguments of a direct call of move.
MoveDestArgs == {None, R(<<"..", "t", "e">>)}

\* The errors the retrieval collaborator may raise ("" for none).
RetrieveFaults == {"", "ConnectionError"}

\* Where an operating-system error may strike a move and a cleanup.
MoveFaults == {"none", "ensure_dir", "exists", "rmtree", "move", "move_copied"}

CleanupFaults == {"none", "exists", "rmtree"}

\* What the destination <base>/d holds before the first call (nothing
\* under the default base directory, which does not exist yet).
InitialDest == {"none", "file", "dir"}

InitialFs(base, at_dest) ==
  LET dirs == Prefixes(<<"c">>) \cup Prefixes(<<"t", "o">>) \cup Prefixes(Cwd)
      d == Div(base, "d").parts
      all == [q \in dirs |-> Entry("dir", 0)]
  IN IF at_dest = "none" THEN all
     ELSE IF at_dest = "file" THEN Mkdirs(all, base).fs @@ (d :> Entry("file", 0))
     ELSE Mkdirs(all, Div(Div(base, "d"), "old")).fs

---------------------------------------------------------------------------
(* The state                                                               *)

VARIABLES
  fs,          \* the filesystem
  downloads,   \* the number of retrievals that succeeded
  self,        \* the KaggleFetcher: source, dataset_name, dest_base_dir, dest_path
  pc,          \* where fetch stands: Idle, Start, Downloaded, Moved, Done,
               \* DownloadFailed, MoveFailed
  call,        \* the call in progress or last made: name and arguments
  cache_path,  \* fetch's cache_path
  final_path,  \* fetch's final_path
  dl, mv, cl,  \* what fetch's download, move and cleanup steps gave
  result,      \* what the call gave
  pre_dest,    \* what the destination held when the call was made
  follows,     \* the call before (its name, the tag it retrieved) when it was
               \* a fetch or a move that returned the path this call names
  one,         \* the last fetch_dataset call: its arguments, what the
               \* collaborators did, and what it gave
  handlers,    \* the handlers of each module's logger, in the order added
  first,       \* of each logger: whether a fetcher was constructed with
               \* logging enabled, and the handlers it had after the first
  procs,       \* of each of two fetchers running move at once: where it
               \* stands in move, its cache path, what it gave, and its
               \* rank among those that finished
  probe        \* a call of clean_path or ensure_dir: the function, its
               \* argument, the path it returned and the error it raised

\* The variables the pipeline itself does not touch.
aux == <<one, handlers, first, procs, probe>>

vars == <<fs, downloads, self, pc, call, cache_path, final_path, dl, mv, cl,
          result, pre_dest, follows, aux>>

Summary(r, tag) ==
  [status |-> r.status, path |-> r.path, flag |-> r.flag, cause |-> r.cause, tag |-> tag]

NotRun == [status |-> "notrun", path |-> None, flag |-> "-", cause |-> "", tag |-> 0]

Pending == [status |-> "pending", path |-> None, flag |-> "-", cause |-> "", tag |-> 0]

Call(name, keep_cache, cache, dest) ==
  [name |-> name, keep_cache |-> keep_cache, cache_path |-> cache, dest_path |-> dest]

\* What the collaborators do during one fetch: the directory the
\* retrieval makes, and the errors met by the retrieval, the move and the
\* cleanup (a step that follows a failed one meets none).
Choices ==
  {ch \in [c : CachePaths, fail : RetrieveFaults, move : MoveFaults,
           cleanup : CleanupFaults] :
     /\ ch.fail /= "" => ch.move = "none"
     /\ ch.move /= "none" => ch.cleanup = "none"}

NoOneLiner ==
  [called |-> FALSE, source |-> <<>>, dest_dir |-> None,
   ch |-> [c |-> None, fail |-> "", move |-> "none", cleanup |-> "none"],
   out |-> Result("notrun", None, "-", "", <<>>)]

\* The loggers of the two modules that define KaggleFetcher,
\* logging.getLogger(__name__).
Loggers == {"kagglefetcher.core", "kagglefetcher.src.core"}

\* The log_dir arguments: None for the default "logs", and the place of
\* the dataset "d" in the base directory /t.
LogDirArgs == {None, P(<<"t", "d">>)}

\* The fetchers that run move at the same time.
Instances == {"A", "B"}

\* A fetcher that is not in move.
NoMove ==
  [pc |-> "none", cache_path |-> None, tag |-> 0, status |-> "notrun",
   cause |-> "", rank |-> 0]

\* No call of a utility.
NoProbe == [fn |-> "none", arg |-> None, out |-> None, err |-> ""]

AuxIdle ==
  /\ probe = NoProbe
  /\ procs = [i \in Instances |-> NoMove]
  /\ one = NoOneLiner
  /\ handlers = [l \in Loggers |-> <<>>]
  /\ first = [l \in Loggers |-> [done |-> FALSE, handlers |-> <<>>]]

Init ==
  /\ AuxIdle
  /\ \E source \in Sources, base \in BaseArgs :
       \E at_dest \in IF base = None THEN {"none"} ELSE InitialDest :
       /\ self = Construct(source, base)
       /\ fs = InitialFs(self.dest_base_dir, at_dest)
  /\ downloads = 0
  /\ pc = "Idle"
  /\ call = Call("none", FALSE, None, None)
  /\ cache_path = None
  /\ final_path = None
  /\ dl = NotRun /\ mv = NotRun /\ cl = NotRun
  /\ result = NotRun
  /\ pre_dest = Entry("none", 0)
  /\ follows = [name |-> "none", tag |-> 0]

---------------------------------------------------------------------------
(* The calls.  Execution is single-threaded: a call is made when no fetch  *)
(* is in progress.                                                         *)

Idle == pc \in {"Idle", "Done", "DownloadFailed", "MoveFailed"}

\* The destination a call with this dest_path argument names.
Requested(dest) == IF dest = None THEN self.dest_path ELSE dest

\* The place a call names: the destination of a fetch or a move, the
\* path a cleanup is to remove.
Target(c) ==
  IF c.name \in {"fetch", "move"} THEN AbsPath(Requested(c.dest_path))
  ELSE AbsPath(c.cache_path)

Held(f, p) == IF Exists(f, p) THEN f[p.parts] ELSE Entry("none", 0)

Begin(c) ==
  /\ Idle
  /\ call' = c
  /\ pre_dest' = IF c.name \in {"fetch", "move"}
                 THEN Held(fs, AbsPath(Requested(c.dest_path)))
                 ELSE Entry("none", 0)
  /\ follows' = IF /\ call.name \in {"fetch", "move"}
                   /\ result.status = "returned"
                   /\ result.path = Target(c)
                THEN [name |-> call.name, tag |-> result.tag]
                ELSE [name |-> "none", tag |-> 0]

\* A direct call of download().
Download(c, fail) ==
  /\ Begin(Call("download", FALSE, None, None))
  /\ fail = "" => downloads < MaxDownloads /\ ~Exists(fs, c)
  /\ LET r == download(fs, c, downloads + 1, fail)
     IN /\ fs' = r.fs
        /\ downloads' = IF r.status = "returned" THEN downloads + 1 ELSE downloads
        /\ result' = Summary(r, IF r.status = "returned" THEN downloads + 1 ELSE 0)
  /\ pc' = "Idle"
  /\ cache_path' = None /\ final_path' = None
  /\ dl' = NotRun /\ mv' = NotRun /\ cl' = NotRun
  /\ UNCHANGED <<self, aux>>

\* A direct call of move(cache_path, dest_path).
Move(cache, dest, fault) ==
  /\ Begin(Call("move", FALSE, cache, dest))
  /\ LET r == move(self, fs, cache, dest, fault)
     IN fs' = r.fs /\ result' = Summary(r, 0)
  /\ pc' = "Idle"
  /\ cache_path' = None /\ final_path' = None
  /\ dl' = NotRun /\ mv' = NotRun /\ cl' = NotRun
  /\ UNCHANGED <<downloads, self, aux>>

\* A direct call of cleanup(cache_path).
Cleanup(path, fault) ==
  /\ Begin(Call("cleanup", FALSE, path, None))
  /\ LET r == cleanup(fs, path, fault)
     IN fs' = r.fs /\ result' = Summary(r, 0)
  /\ pc' = "Idle"
  /\ cache_path' = None /\ final_path' = None
  /\ dl' = NotRun /\ mv' = NotRun /\ cl' = NotRun
  /\ UNCHANGED <<downloads, self, aux>>

\* fetch(keep_cache, dest_path) is called.
FetchCall(keep_cache, dest) ==
  /\ Begin(Call("fetch", keep_cache, None, dest))
  /\ pc' = "Start"
  /\ cache_path' = None /\ final_path' = None
  /\ dl' = NotRun /\ mv' = NotRun /\ cl' = NotRun
  /\ result' = Pending
  /\ UNCHANGED <<fs, downloads, self, aux>>

\* fetch, line 91: cache_path = self.download().
FetchDownload(c, fail) ==
  /\ pc = "Start"
  /\ fail = "" => downloads < MaxDownloads /\ ~Exists(fs, c)
  /\ LET r == download(fs, c, downloads + 1, fail)
         ok == r.status = "returned"
     IN /\ fs' = r.fs
        /\ dl' = Summary(r, IF ok THEN downloads + 1 ELSE 0)
        /\ downloads' = IF ok THEN downloads + 1 ELSE downloads
        /\ cache_path' = r.path
        /\ pc' = IF ok THEN "Downloaded" ELSE "DownloadFailed"
        /\ result' = IF ok THEN result ELSE Summary(r, 0)
  /\ UNCHANGED <<self, call, final_path, mv, cl, pre_dest, follows, aux>>

\* fetch, line 92: final_path = self.move(cache_path, dest_path).
FetchMove(fault) ==
  /\ pc = "Downloaded"
  /\ LET r == move(self, fs, cache_path, call.dest_path, fault)
         ok == r.status = "returned"
     IN /\ fs' = r.fs
        /\ mv' = Summary(r, 0)
        /\ final_path' = r.path
        /\ pc' = IF ok THEN "Moved" ELSE "MoveFailed"
        /\ result' = IF ok THEN result ELSE Summary(r, 0)
  /\ UNCHANGED <<downloads, self, call, cache_path, dl, cl, pre_dest, follows, aux>>

\* fetch, lines 93-98, when the cleanup step runs.
FetchCleanup(fault) ==
  /\ pc = "Moved"
  /\ CleanupDue(call.keep_cache, cache_path, final_path)
  /\ LET r == cleanup(fs, cache_path, fault)
     IN /\ fs' = r.fs
        /\ cl' = Summary(r, 0)
        /\ result' = Summary(FetchReturn(Summary(r, 0), final_path, r.fs), dl.tag)
  /\ pc' = "Done"
  /\ UNCHANGED <<downloads, self, call, cache_path, final_path, dl, mv, pre_dest, follows, aux>>

\* Mutant of FetchSkipCleanup: fetch returns the cache path right after
\* the download, without the move step.
FetchSkipCleanup_early ==
  /\ pc = "Downloaded"
  /\ result' = Summary(FetchReturn(NotRun, cache_path, fs), dl.tag)
  /\ pc' = "Done"
  /\ UNCHANGED <<fs, downloads, self, call, cache_path, final_path, dl, mv, cl, pre_dest, follows, aux>>

\* fetch, lines 93 and 98, when the cleanup step is skipped.
FetchSkipCleanup ==
  /\ pc = "Moved"
  /\ ~CleanupDue(call.keep_cache, cache_path, final_path)
  /\ result' = Summary(FetchReturn(NotRun, final_path, fs), dl.tag)
  /\ pc' = "Done"
  /\ UNCHANGED <<fs, downloads, self, call, cache_path, final_path, dl, mv, cl, pre_dest, follows, aux>>

\* The paths cleanup is called with directly: the cache paths and the
\* fetcher's derived destination.
CleanupArgs == CachePaths \cup {self.dest_path}

Next ==
  \/ \E c \in CachePaths, fail \in RetrieveFaults : Download(c, fail)
  \/ \E cache \in CachePaths, dest \in MoveDestArgs, fault \in MoveFaults :
       Move(cache, dest, fault)
  \/ \E path \in CleanupArgs, fault \in CleanupFaults : Cleanup(path, fault)
  \/ \E keep_cache \in BOOLEAN, dest \in DestArgs : FetchCall(keep_cache, dest)
  \/ \E c \in CachePaths, fail \in RetrieveFaults : FetchDownload(c, fail)
  \/ \E fault \in MoveFaults : FetchMove(fault)
  \/ \E fault \in CleanupFaults : FetchCleanup(fault)
  \/ FetchSkipCleanup

Spec == Init /\ [][Next]_vars

\* The steps of a fetch in progress.  fetch is straight-line code whose
\* calls (download, move, cleanup) each return or raise, so a fetch that
\* has a step to take takes it.
FetchStep ==
  \/ \E c \in CachePaths, fail \in RetrieveFaults : FetchDownload(c, fail)
  \/ \E fault \in MoveFaults : FetchMove(fault)
  \/ \E fault \in CleanupFaults : FetchCleanup(fault)
  \/ FetchSkipCleanup

SpecFair == Spec /\ WF_vars(FetchStep)

---------------------------------------------------------------------------
(* fetch_dataset beside the constructor followed by fetch().  A call of    *)
(* fetch_dataset(source, dest_dir) is computed as a whole into one.out,    *)
(* and from the same state, with the collaborators doing the same, a       *)
(* KaggleFetcher(source, dest_dir) is constructed and its fetch() run step *)
(* by step in the other variables.                                         *)

FetchDatasetCall(source, dest_dir, ch) ==
  /\ Idle
  /\ ch.fail = "" => downloads < MaxDownloads /\ ~Exists(fs, ch.c)
  /\ one' = [called |-> TRUE, source |-> source, dest_dir |-> dest_dir, ch |-> ch,
             out |-> fetch_dataset(fs, source, dest_dir, downloads + 1, ch)]
  /\ self' = Construct(source, dest_dir)
  /\ call' = Call("fetch", FALSE, None, None)
  /\ pre_dest' = Held(fs, Construct(source, dest_dir).dest_path)
  /\ follows' = [name |-> "none", tag |-> 0]
  /\ pc' = "Start"
  /\ cache_path' = None /\ final_path' = None
  /\ dl' = NotRun /\ mv' = NotRun /\ cl' = NotRun
  /\ result' = Pending
  /\ UNCHANGED <<fs, downloads, handlers, first, procs, probe>>

\* With the default arguments the cleanup step of fetch() is always due.
NextOneLiner ==
  \/ \E source \in Sources, dest_dir \in BaseArgs, ch \in Choices :
       FetchDatasetCall(source, dest_dir, ch)
  \/ FetchDownload(one.ch.c, one.ch.fail)
  \/ FetchMove(one.ch.move)
  \/ FetchCleanup(one.ch.cleanup)

SpecOneLiner == Init /\ [][NextOneLiner]_vars

---------------------------------------------------------------------------
(* Constructing fetchers with and without logging, of either module.       *)

\* KaggleFetcher(source, dest_base_dir, enable_logging, log_dir) of module
\* name: the fetcher made by made and the logging set up by setup.
Constructed(name, made, s) ==
  /\ Idle
  /\ Len(handlers[name]) < MaxHandlers
  /\ fs' = s.fs
  /\ handlers' = [handlers EXCEPT ![name] = s.handlers]
  /\ first' = IF s.logging /\ s.err = "" /\ ~first[name].done
              THEN [first EXCEPT ![name] = [done |-> TRUE, handlers |-> s.handlers]]
              ELSE first
  /\ self' = IF s.err = "" THEN made ELSE self
  /\ call' = Call(name, FALSE, None, None)
  /\ result' = Summary(Result(IF s.err = "" THEN "returned" ELSE s.err,
                              None, "-", "", fs), 0)
  /\ pc' = "Idle"
  /\ UNCHANGED <<downloads, cache_path, final_path, dl, mv, cl, pre_dest, follows,
                 one, procs, probe>>

LogDir(log_dir) == IF log_dir = None THEN R(<<"logs">>) ELSE log_dir

\* kagglefetcher.core.KaggleFetcher(...).
ConstructCore(source, dest_base_dir, enable_logging, log_dir) ==
  LET h == handlers["kagglefetcher.core"]
      s == IF enable_logging THEN setup_logging(fs, h, LogDir(log_dir))
           ELSE Logged("", fs, h)
  IN Constructed("kagglefetcher.core", ConstructPlain(source, dest_base_dir),
                 [logging |-> enable_logging] @@ s)

\* kagglefetcher.src.core.KaggleFetcher(...).
ConstructSrc(source, dest_base_dir, enable_logging, log_dir) ==
  LET h == handlers["kagglefetcher.src.core"]
      s == IF enable_logging THEN setup_logger(fs, h, LogDir(log_dir))
           ELSE Logged("", fs, h)
  IN Constructed("kagglefetcher.src.core", Construct(source, dest_base_dir),
                 [logging |-> enable_logging] @@ s)

NextLogging ==
  \/ \E source \in Sources, base \in BaseArgs, enable_logging \in BOOLEAN,
        log_dir \in LogDirArgs :
       ConstructCore(source, base, enable_logging, log_dir)
  \/ \E source \in Sources, base \in BaseArgs, enable_logging \in BOOLEAN,
        log_dir \in LogDirArgs :
       ConstructSrc(source, base, enable_logging, log_dir)

SpecLogging == Init /\ [][NextLogging]_vars

---------------------------------------------------------------------------
(* Two fetchers of the same source and base directory run move(cache_path) *)
(* at the same time, each on the directory its own download returned.      *)
(* The lines of move are the steps: ensure_dir(dest.parent) (58), the      *)
(* check dest.exists() (59), shutil.rmtree(dest) (61) and shutil.move(...)  *)
(* (62); the filesystem calls themselves are atomic.  No operating-system  *)
(* error is injected: a step fails only by what the other fetcher did.     *)

\* The cache path and the contents of each fetcher's download.
CacheOf(i) == IF i = "A" THEN P(<<"c", "x">>) ELSE P(<<"c", "y">>)

TagOf(i) == IF i = "A" THEN 1 ELSE 2

InitRace ==
  /\ \E source \in Sources, base \in BaseArgs :
       \E at_dest \in IF base = None THEN {"none"} ELSE InitialDest :
       /\ self = Construct(source, base)
       /\ fs = [i \in {CacheOf(j).parts : j \in Instances} |->
                  Entry("dir", IF i = CacheOf("A").parts THEN TagOf("A") ELSE TagOf("B"))]
               @@ InitialFs(self.dest_base_dir, at_dest)
  /\ procs = [i \in Instances |->
                [pc |-> "ensure", cache_path |-> CacheOf(i), tag |-> TagOf(i),
                 status |-> "pending", cause |-> "", rank |-> 0]]
  /\ downloads = Cardinality(Instances)
  /\ pc = "Idle"
  /\ call = Call("move", FALSE, None, None)
  /\ cache_path = None
  /\ final_path = None
  /\ dl = NotRun /\ mv = NotRun /\ cl = NotRun
  /\ result = NotRun
  /\ pre_dest = Entry("none", 0)
  /\ follows = [name |-> "none", tag |-> 0]
  /\ one = NoOneLiner
  /\ handlers = [l \in Loggers |-> <<>>]
  /\ first = [l \in Loggers |-> [done |-> FALSE, handlers |-> <<>>]]
  /\ probe = NoProbe

\* The destination of both moves, line 55.
RaceDest == MoveDest(self, None)

Finished(i) == procs[i].rank > 0

\* The step of fetcher i gave out: on an error move raises MoveError, else
\* it goes on to next ("returned" ends it).
Stepped(i, out, next) ==
  LET ends == out.err /= "" \/ next = "returned"
      r == IF out.err /= "" THEN MoveRaise(out) ELSE Result("returned", RaceDest, "-", "", out.fs)
  IN /\ fs' = out.fs
     /\ procs' = [procs EXCEPT ![i] =
          IF ends
          THEN [@ EXCEPT !.pc = "done", !.status = r.status, !.cause = r.cause,
                         !.rank = 1 + Cardinality({j \in Instances : Finished(j)})]
          ELSE [@ EXCEPT !.pc = next]]
     /\ UNCHANGED <<downloads, self, pc, call, cache_path, final_path, dl, mv, cl,
                    result, pre_dest, follows, one, handlers, first, probe>>

\* move, line 58: ensure_dir(dest.parent).
MoveEnsure(i) ==
  /\ procs[i].pc = "ensure"
  /\ Stepped(i, ensure_dir(fs, Parent(RaceDest)), "check")

\* Mutant of MoveCheck: the destination is never found to exist.
MoveCheck_blind(i) ==
  /\ procs[i].pc = "check"
  /\ Stepped(i, Out("", fs), "relocate")

\* move, line 59: if dest.exists().
MoveCheck(i) ==
  /\ procs[i].pc = "check"
  /\ Stepped(i, Out("", fs), IF Exists(fs, RaceDest) THEN "remove" ELSE "relocate")

\* move, line 61: shutil.rmtree(dest).
MoveRemove(i) ==
  /\ procs[i].pc = "remove"
  /\ Stepped(i, Rmtree(fs, RaceDest), "relocate")

\* move, lines 62-64: shutil.move(str(cache_path), str(dest)); return dest.
MoveRelocate(i) ==
  /\ procs[i].pc = "relocate"
  /\ Stepped(i, ShutilMove(fs, procs[i].cache_path, RaceDest), "returned")

NextRace ==
  \/ \E i \in Instances : MoveEnsure(i)
  \/ \E i \in Instances : MoveCheck(i)
  \/ \E i \in Instances : MoveRemove(i)
  \/ \E i \in Instances : MoveRelocate(i)

SpecRace == InitRace /\ [][NextRace]_vars

---------------------------------------------------------------------------
(* utils.py on its own: clean_path and ensure_dir are called with a path   *)
(* drawn at the start, in a filesystem that holds a regular file "a" in    *)
(* the working directory.                                                  *)

\* The components of the paths: the home shorthand, the name of the
\* regular file, another name, and the parent directory.
Names == {"~", "a", "b", ".."}

\* The paths given: absolute and relative, of up to MaxParts components.
PathInputs ==
  {[abs |-> b, parts |-> k] :
     b \in BOOLEAN, k \in UNION {[1..n -> Names] : n \in 0..MaxParts}}

UtilsFs ==
  (Append(Cwd, "a") :> Entry("file", 0))
    @@ [q \in Prefixes(Cwd) \cup Prefixes(Home) |-> Entry("dir", 0)]

InitUtils ==
  /\ \E p \in PathInputs : probe = [NoProbe EXCEPT !.arg = p]
  /\ fs = UtilsFs
  /\ self = Construct(<<"u", "/", "d">>, None)
  /\ downloads = 0
  /\ pc = "Idle"
  /\ call = Call("none", FALSE, None, None)
  /\ cache_path = None
  /\ final_path = None
  /\ dl = NotRun /\ mv = NotRun /\ cl = NotRun
  /\ result = NotRun
  /\ pre_dest = Entry("none", 0)
  /\ follows = [name |-> "none", tag |-> 0]
  /\ one = NoOneLiner
  /\ handlers = [l \in Loggers |-> <<>>]
  /\ first = [l \in Loggers |-> [done |-> FALSE, handlers |-> <<>>]]
  /\ procs = [i \in Instances |-> NoMove]

\* clean_path(path) is called with p.
Normalize(p) ==
  /\ probe' = [fn |-> "clean_path", arg |-> p, out |-> clean_path(p), err |-> ""]
  /\ UNCHANGED <<fs, downloads, self, pc, call, cache_path, final_path, dl, mv, cl,
                 result, pre_dest, follows, one, handlers, first, procs>>

\* clean_path is called with the path drawn.
NormalizeInput == probe.fn = "none" /\ Normalize(probe.arg)

\* clean_path is called with the path clean_path returned.
NormalizeAgain == probe.fn = "clean_path" /\ probe.out /= probe.arg /\ Normalize(probe.out)

\* ensure_dir(path) is called with the path drawn: it returns Path(path).
EnsureDir ==
  /\ probe.fn = "none"
  /\ LET r == ensure_dir(fs, AbsPath(probe.arg))
     IN /\ fs' = r.fs
        /\ probe' = [fn |-> "ensure_dir", arg |-> probe.arg,
                     out |-> IF r.err = "" THEN probe.arg ELSE None, err |-> r.err]
  /\ UNCHANGED <<downloads, self, pc, call, cache_path, final_path, dl, mv, cl,
                 result, pre_dest, follows, one, handlers, first, procs>>

NextUtils ==
  \/ NormalizeInput
  \/ NormalizeAgain
  \/ EnsureDir

SpecUtils == InitUtils /\ [][NextUtils]_vars

---------------------------------------------------------------------------
(* Properties                                                              *)

\* The causes that only an injected operating-system error produces.
InjectedCauses == {"PermissionError", "OSError"}

FetchEnded == call.name = "fetch" /\ pc \in {"Done", "DownloadFailed", "MoveFailed"}

\* C1: when fetch's cleanup step raises CleanupError after a successful
\* move, fetch ends Done and returns the final path the move returned: the
\* cleanup failure is not what fetch gives.
C1_CleanupFailureSwallowed ==
  (call.name = "fetch" /\ cl.status = "CleanupError") =>
    /\ pc = "Done"
    /\ mv.status = "returned"
    /\ result.status = "returned"
    /\ result.path = mv.path
    /\ result.path = final_path

C1_Witness ==
  /\ pc = "Done" /\ ~call.keep_cache
  /\ mv.status = "returned" /\ cl.status = "CleanupError"

\* C2: whenever fetch returns, the path it returns is the requested
\* destination (the dest_path argument, else the derived destination), a
\* directory there holds the contents this call's download retrieved, and
\* that is so after the cleanup step.
C2_ReturnedPathHoldsDownload ==
  (call.name = "fetch" /\ pc = "Done") =>
    /\ result.status = "returned"
    /\ result.path = AbsPath(Requested(call.dest_path))
    /\ IsDir(fs, result.path)
    /\ dl.tag /= 0
    /\ fs[result.path.parts].tag = dl.tag

C2_Witness ==
  /\ call.name = "fetch" /\ pc = "Done"
  /\ call.dest_path /= None /\ ~call.keep_cache
  /\ cl.status = "returned"
  /\ IsDir(fs, result.path)

\* C3: when fetch(keep_cache=False) returns, nothing exists at the cache
\* path the download returned, also when the cleanup step raised.
C3_CacheGoneAfterFetch ==
  (call.name = "fetch" /\ pc = "Done" /\ ~call.keep_cache) => ~Exists(fs, cache_path)

C3_Witness ==
  /\ call.name = "fetch" /\ pc = "Done" /\ ~call.keep_cache
  /\ cl.status = "CleanupError"
  /\ ~Exists(fs, cache_path)

\* C4: when fetch(keep_cache=True) returns and the cache path differs from
\* the final path, the cache path the download returned still exists.
C4_KeepCacheKeepsCache ==
  (call.name = "fetch" /\ pc = "Done" /\ call.keep_cache /\ cache_path /= final_path)
    => Exists(fs, cache_path)

\* C5: a fetch made right after a fetch that returned the same destination
\* D never fails because of what D holds (its move fails only by an
\* injected operating-system error), and when it returns D holds this
\* download's contents and nothing else.
C5_SecondFetchOverwrites ==
  (FetchEnded /\ follows.name = "fetch") =>
    /\ pc = "MoveFailed" => mv.cause \in InjectedCauses
    /\ pc = "Done" =>
         /\ IsDir(fs, final_path)
         /\ fs[final_path.parts].tag = dl.tag
         /\ dl.tag /= follows.tag
         /\ \A q \in Under(fs, final_path.parts) :
              q = final_path.parts /\ fs[q].tag /= follows.tag

C5_Witness ==
  /\ FetchEnded /\ follows.name = "fetch" /\ pc = "Done"
  /\ follows.tag /= 0 /\ pre_dest.tag = follows.tag

\* C6: when a regular file is at the destination as fetch is called and no
\* operating-system error is injected, fetch (once its download succeeded)
\* returns, and the destination is a directory with the downloaded contents.
C6_FileAtDestinationReplaced ==
  (/\ call.name = "fetch" /\ pre_dest.kind = "file"
   /\ pc \in {"Done", "MoveFailed"}
   /\ mv.cause \notin InjectedCauses) =>
    /\ pc = "Done"
    /\ IsDir(fs, final_path)
    /\ fs[final_path.parts].tag = dl.tag

\* C7: a move that fails raises MoveError wrapping the cause and gives no
\* path; a fetch whose move step failed ends MoveFailed with that same
\* MoveError, gives no path and has not run the cleanup step.
C7_MoveFailureIsMoveError ==
  /\ (call.name = "move" /\ result.status /= "returned") =>
       /\ result.status = "MoveError"
       /\ result.cause /= ""
       /\ result.path = None
  /\ (call.name = "fetch" /\ mv.status \notin {"notrun", "returned"}) =>
       /\ mv.status = "MoveError"
       /\ mv.cause /= ""
       /\ pc = "MoveFailed"
       /\ result = mv
       /\ result.path = None /\ final_path = None
       /\ cl.status = "notrun"

C7_Witness ==
  /\ call.name = "fetch" /\ pc = "MoveFailed"
  /\ mv.status = "MoveError" /\ mv.cause = "OSError"
  /\ cl.status = "notrun"

\* C8: when the retrieval collaborator fails, download raises DownloadError
\* carrying the collaborator's error; fetch ends with that DownloadError
\* having run neither move nor cleanup, and the filesystem is as it was
\* when fetch was called.
C8_DownloadFailureAborts ==
  [][/\ pc' = "Start" => fs' = fs
     /\ (pc = "Start" /\ pc' = "DownloadFailed") =>
          /\ result'.status = "DownloadError"
          /\ result'.cause /= "" /\ result'.cause = dl'.cause
          /\ result'.path = None
          /\ mv' = NotRun /\ cl' = NotRun
          /\ fs' = fs
     /\ (call'.name = "download" /\ result'.status /= "returned") =>
          /\ result'.status = "DownloadError"
          /\ result'.cause /= ""
          /\ fs' = fs]_vars

C8_Witness ==
  /\ call.name = "fetch" /\ pc = "DownloadFailed"
  /\ result.status = "DownloadError" /\ result.cause = "ConnectionError"

\* C9 as stated: a cleanup of a path at which nothing exists returns False,
\* raises nothing and leaves the filesystem as it was.
C9_CleanupMissingReturnsFalse ==
  [][(call'.name = "cleanup" /\ ~Exists(fs, AbsPath(call'.cache_path))) =>
       /\ fs' = fs
       /\ result'.status = "returned"
       /\ result'.flag = "False"]_vars

\* C9 as amended: a cleanup of a path at which nothing exists leaves the
\* filesystem as it was, and returns False unless the existence check
\* itself raised an operating-system error, which it raises as CleanupError.
C9_CleanupMissingLeavesFs ==
  [][(call'.name = "cleanup" /\ ~Exists(fs, AbsPath(call'.cache_path))) =>
       /\ fs' = fs
       /\ \/ result'.status = "returned" /\ result'.flag = "False"
          \/ result'.status = "CleanupError" /\ result'.cause = "PermissionError"]_vars

C9_Witness ==
  /\ call.name = "cleanup" /\ result.status = "returned" /\ result.flag = "False"
  /\ ~Exists(fs, AbsPath(call.cache_path))

\* C10: after move(cache_path, dest_path) returns, the destination exists
\* and nothing exists at cache_path; a cleanup of that destination made
\* next, when it returns, returns True and nothing exists there.
C10_MoveRelocates ==
  /\ (call.name = "move" /\ result.status = "returned") =>
       /\ Exists(fs, result.path)
       /\ ~Exists(fs, AbsPath(call.cache_path))
  /\ (call.name = "cleanup" /\ follows.name = "move" /\ result.status = "returned") =>
       /\ result.flag = "True"
       /\ ~Exists(fs, AbsPath(call.cache_path))

C10_Witness ==
  /\ call.name = "cleanup" /\ follows.name = "move"
  /\ result.status = "returned" /\ result.flag = "True"
  /\ ~Exists(fs, AbsPath(call.cache_path))

\* C11 .. C20

\* C12: the derived destination path of every fetcher constructed has the
\* destination base directory as its parent.
C12_DestParentIsBase == Parent(self.dest_path) = self.dest_base_dir

\* The steps fetch passes through: from one position to the next.
FetchEdges ==
  {<<"Start", "Downloaded">>, <<"Start", "DownloadFailed">>,
   <<"Downloaded", "Moved">>, <<"Downloaded", "MoveFailed">>,
   <<"Moved", "Done">>}

\* What has run at each position of fetch.
FetchProgress ==
  /\ pc = "Start" => dl = NotRun /\ mv = NotRun /\ cl = NotRun
  /\ pc = "Downloaded" => dl.status = "returned" /\ mv = NotRun /\ cl = NotRun
  /\ pc = "DownloadFailed" => dl.status = "DownloadError" /\ mv = NotRun /\ cl = NotRun
  /\ pc = "Moved" => dl.status = "returned" /\ mv.status = "returned" /\ cl = NotRun
  /\ pc = "MoveFailed" => dl.status = "returned" /\ mv.status = "MoveError" /\ cl = NotRun
  /\ pc = "Done" => dl.status = "returned" /\ mv.status = "returned"
                     /\ result.status = "returned"

\* A step of the pipeline: the position moves along an edge of fetch or a
\* new call is made, and within a fetch a step runs exactly the one of
\* download (from Start), move (from Downloaded) and cleanup (from Moved)
\* that is due.
FetchStepInOrder ==
  /\ pc' /= pc =>
       \/ pc' \in {"Start", "Idle"} /\ Idle
       \/ <<pc, pc'>> \in FetchEdges
  /\ pc' \notin {"Start", "Idle"} =>
       /\ dl' /= dl => (pc = "Start" /\ mv' = mv /\ cl' = cl)
       /\ mv' /= mv => (pc = "Downloaded" /\ dl' = dl /\ cl' = cl)
       /\ cl' /= cl => (pc = "Moved" /\ dl' = dl /\ mv' = mv)
       /\ pc = "Start" => dl' /= dl
       /\ pc = "Downloaded" => mv' /= mv

\* C13: a fetch goes Start, Downloaded, Moved, Done: each step of it is
\* one of these edges and runs one of download, move and cleanup; download
\* runs once, from Start; move runs only from Downloaded, after a download
\* that returned; cleanup runs only from Moved, after a move that returned;
\* and a fetch that was called ends Done, DownloadFailed or MoveFailed.
C13_FetchStateMachine ==
  /\ []FetchProgress
  /\ [][FetchStepInOrder]_vars
  /\ (pc = "Start") ~> FetchEnded

C13_Witness ==
  /\ call.name = "fetch" /\ pc = "Done"
  /\ dl.status = "returned" /\ mv.status = "returned" /\ cl.status = "returned"

\* C14: whenever fetch ends MoveFailed, the cache path its download
\* returned still exists.
C14_MoveFailedKeepsCache == pc = "MoveFailed" => Exists(fs, cache_path)

\* C15: a direct cleanup of a path at which an entry exists either returns
\* True, and then that entry and all under it are gone and every other
\* entry is as it was, or raises CleanupError wrapping a cause; and cleanup
\* returns True only of a path that existed at the call and does not exist
\* at the return.
C15_CleanupRemovesExisting ==
  [][call'.name = "cleanup" =>
       LET t == AbsPath(call'.cache_path)
       IN /\ Exists(fs, t) =>
               \/ /\ result'.status = "returned" /\ result'.flag = "True"
                  /\ Under(fs', t.parts) = {}
                  /\ fs' = [q \in DOMAIN fs \ Under(fs, t.parts) |-> fs[q]]
               \/ /\ result'.status = "CleanupError" /\ result'.cause /= ""
          /\ result'.flag = "True" => Exists(fs, t) /\ ~Exists(fs', t)]_vars

C15_Witness ==
  /\ call.name = "cleanup" /\ result.status = "returned" /\ result.flag = "True"
  /\ AbsPath(call.cache_path) = self.dest_path
  /\ ~Exists(fs, self.dest_path)

\* C20: no step of a fetch with the default destination removes an entry
\* under the destination base directory, other than the entry the short
\* name names there (and what is under it) and the cache path.
C20_FetchKeepsOtherEntries ==
  [][(call'.name = "fetch" /\ call'.dest_path = None) =>
       \A q \in Under(fs, self.dest_base_dir.parts) \ {self.dest_base_dir.parts} :
         \/ q \in DOMAIN fs'
         \/ self.dataset_name /= "" /\ IsPrefix(self.dest_path.parts, q)
         \/ IsPrefix(cache_path'.parts, q)]_vars

\* C11: when the fetch() of the fetcher constructed with the arguments of
\* a fetch_dataset call has ended, it has given what fetch_dataset gave
\* (the path returned, or the error raised and its cause) and left the
\* filesystem fetch_dataset left.
C11_OneLinerIsConstructThenFetch ==
  (one.called /\ FetchEnded) =>
    /\ result.status = one.out.status
    /\ result.path = one.out.path
    /\ result.cause = one.out.cause
    /\ fs = one.out.fs

C11_Witness ==
  /\ one.called /\ FetchEnded /\ pc = "Done"
  /\ one.dest_dir /= None
  /\ one.out.status = "returned"
  /\ result.path = Div(clean_path(one.dest_dir), "d")
  /\ IsDir(fs, result.path) /\ fs[result.path.parts].tag = 2

\* C16: once a fetcher has been constructed with logging enabled, the
\* handlers of its module's logger stay those it had after that first
\* construction.
C16_HandlersSetUpOnce ==
  \A l \in Loggers : first[l].done => handlers[l] = first[l].handlers

\* The moves that returned, and the one of them that finished last.
Returned == {i \in Instances : procs[i].status = "returned"}

LastReturned == CHOOSE i \in Returned : \A j \in Returned : procs[j].rank <= procs[i].rank

\* The destination holds exactly the contents of the cache path of i.
HoldsOnly(i) ==
  /\ IsDir(fs, RaceDest)
  /\ fs[RaceDest.parts].tag = procs[i].tag
  /\ Under(fs, RaceDest.parts) = {RaceDest.parts}

\* The destination holds the contents of the cache path of i, and in it,
\* under its own name, the cache directory of j.
HoldsNested(i, j) ==
  LET inner == Div(RaceDest, procs[j].cache_path.parts[Len(procs[j].cache_path.parts)])
  IN /\ IsDir(fs, RaceDest)
     /\ fs[RaceDest.parts].tag = procs[i].tag
     /\ Under(fs, RaceDest.parts) = {RaceDest.parts, inner.parts}
     /\ fs[inner.parts].tag = procs[j].tag

\* C17 as stated: once both moves have finished, the destination holds
\* exactly the contents of the cache path of the move that returned last.
C17_LastMoveWins ==
  ((\A i \in Instances : Finished(i)) /\ Returned /= {}) => HoldsOnly(LastReturned)

\* C17 as amended: once both moves have finished, the destination holds
\* either exactly the contents of the cache path of the move that returned
\* last, or the contents of the other move, which returned too, with the
\* cache directory of the last one inside them under its own name.
C17_LastMoveWinsOrNests ==
  ((\A i \in Instances : Finished(i)) /\ Returned /= {}) =>
    \/ HoldsOnly(LastReturned)
    \/ \E i \in Returned \ {LastReturned} : HoldsNested(i, LastReturned)

C17_Witness ==
  /\ \A i \in Instances : Finished(i)
  /\ Returned = Instances
  /\ \E i \in Returned \ {LastReturned} : HoldsNested(i, LastReturned)

\* The path C18 gives for an input: a leading "~" replaced by the home
\* directory, the path made absolute and normalized.
Expanded(p) ==
  IF ~p.abs /\ p.parts /= <<>> /\ p.parts[1] = "~"
  THEN P(NormParts(<<>>, Home \o Tail(p.parts)))
  ELSE AbsPath(p)

\* C18: clean_path returns the absolute normalized path of its argument
\* with a leading "~" expanded to the home directory, and clean_path of
\* what it returned is the same path.
C18_CleanPathExpandsHome ==
  probe.fn = "clean_path" =>
    /\ probe.out = Expanded(probe.arg)
    /\ clean_path(probe.out) = probe.out

\* C19: when ensure_dir has returned without an error, a directory exists
\* at the path; otherwise the filesystem's error has been raised.
C19_EnsureDirNeverSilent ==
  probe.fn = "ensure_dir" =>
    \/ probe.err = "" /\ IsDir(fs, AbsPath(probe.arg))
    \/ probe.err /= ""

====
